---------------------------- MODULE Spec2Model ----------------------------
(***************************************************************************)
(* koishi-plugin-ban-words: dictionary loading, matching and hot reload.   *)
(*                                                                         *)
(* src/src/index.ts holds three generations of the plugin, one after the   *)
(* other.  They are modelled side by side and told apart by a prefix:      *)
(*   A_  lines   1-164  module-level plainTerms / regexTerms /             *)
(*                      regexBatches, fs.watchFile, whitelist, match log   *)
(*   B_  lines 166-319  `compiled`, readLines, fs.watch, reload command    *)
(*   C_  lines 320-531  `regs`, normalizeLine, buildMatchers, fs.watch     *)
(*                      with polling fallback, dispose handlers            *)
(* The variable `variant` says which generation is the running plugin.     *)
(*                                                                         *)
(* Strings are sequences of one-character strings.  A file's text is kept  *)
(* as the sequence of its lines, i.e. as content.split(/\r?\n/) returns    *)
(* it: never empty, the empty file being one empty line.                   *)
(***************************************************************************)
EXTENDS Integers, Sequences, FiniteSets, TLC

(***************************************************************************)
(* Bounds of the model.                                                    *)
(***************************************************************************)
\* longest dictionary file, in lines
MaxLines == 2
\* how often the dictionary file is rewritten, removed or made unreadable
MaxEdits == 2

(***************************************************************************)
(* Strings.                                                                *)
(***************************************************************************)
Min(a, b) == IF a < b THEN a ELSE b
Max(a, b) == IF a > b THEN a ELSE b

\* String.prototype.slice / Array.prototype.slice on 0-based indices
Slice(s, a, b) ==
  LET n    == Len(s)
      from == IF a < 0 THEN Max(n + a, 0) ELSE Min(a, n)
      to   == IF b < 0 THEN Max(n + b, 0) ELSE Min(b, n)
  IN  SubSeq(s, from + 1, to)

RECURSIVE TrimStart(_)
TrimStart(s) == IF s # <<>> /\ Head(s) = " " THEN TrimStart(Tail(s)) ELSE s

RECURSIVE TrimEnd(_)
TrimEnd(s) ==
  IF s # <<>> /\ s[Len(s)] = " " THEN TrimEnd(SubSeq(s, 1, Len(s) - 1)) ELSE s

\* String.prototype.trim
Trim(s) == TrimEnd(TrimStart(s))

\* String.prototype.startsWith
StartsWith(s, p) == Len(p) <= Len(s) /\ SubSeq(s, 1, Len(p)) = p

\* String.prototype.lastIndexOf for one character: 0-based, -1 when absent
LastIndexOf(s, c) ==
  LET at == {i \in 1..Len(s) : s[i] = c}
  IN  IF at = {} THEN -1 ELSE (CHOOSE i \in at : \A j \in at : j <= i) - 1

\* String.prototype.indexOf for one character: 0-based, -1 when absent
IndexOf(s, c) ==
  LET at == {i \in 1..Len(s) : s[i] = c}
  IN  IF at = {} THEN -1 ELSE (CHOOSE i \in at : \A j \in at : i <= j) - 1

\* String.prototype.includes
Includes(text, w) ==
  \E i \in 0..(Len(text) - Len(w)) : SubSeq(text, i + 1, i + Len(w)) = w

\* Array.prototype.join
RECURSIVE Join(_, _)
Join(parts, sep) ==
  IF parts = <<>> THEN <<>>
  ELSE IF Len(parts) = 1 THEN parts[1]
  ELSE parts[1] \o sep \o Join(Tail(parts), sep)

\* the letters the model's texts use in both cases
Lower(c) == IF c = "A" THEN "a" ELSE IF c = "B" THEN "b" ELSE c

(***************************************************************************)
(* Regular expressions.  The engine is the backtracking matcher of         *)
(* ECMAScript restricted to the syntax the model's dictionaries and the    *)
(* plugin's own escaping produce: literal characters, \c escapes, groups   *)
(* ( ) and alternation |.  A RegExp object is its pattern, its flags and   *)
(* its lastIndex.                                                          *)
(***************************************************************************)
FlagLetters == {"d", "g", "i", "m", "s", "u", "v", "y"}

\* the flags new RegExp accepts: known letters, none twice, not u with v
ValidFlags(flags) ==
  /\ \A i \in 1..Len(flags) : flags[i] \in FlagLetters
  /\ \A i, j \in 1..Len(flags) : i # j => flags[i] # flags[j]
  /\ ~(\E i, j \in 1..Len(flags) : flags[i] = "u" /\ flags[j] = "v")

\* the patterns new RegExp accepts: groups balanced, no \ at the end
RECURSIVE PatternOk(_, _, _)
PatternOk(p, i, depth) ==
  IF i > Len(p) THEN depth = 0
  ELSE IF p[i] = "\\" THEN i < Len(p) /\ PatternOk(p, i + 2, depth)
  ELSE IF p[i] = "(" THEN PatternOk(p, i + 1, depth + 1)
  ELSE IF p[i] = ")" THEN depth > 0 /\ PatternOk(p, i + 1, depth - 1)
  ELSE PatternOk(p, i + 1, depth)

\* whether new RegExp(body, flags) returns (TRUE) or throws SyntaxError
Compiles(body, flags) == ValidFlags(flags) /\ PatternOk(body, 1, 0)

\* new RegExp(body, flags), for arguments that compile
NewRegExp(body, flags) == [body |-> body, flags |-> flags, lastIndex |-> 0]

HasFlag(re, c) == \E i \in 1..Len(re.flags) : re.flags[i] = c

\* index of the ")" closing the group whose inside starts at i; 0 if none
RECURSIVE CloseIdx(_, _, _)
CloseIdx(p, i, depth) ==
  IF i > Len(p) THEN 0
  ELSE IF p[i] = "\\" THEN CloseIdx(p, i + 2, depth)
  ELSE IF p[i] = "(" THEN CloseIdx(p, i + 1, depth + 1)
  ELSE IF p[i] = ")"
       THEN IF depth = 0 THEN i ELSE CloseIdx(p, i + 1, depth - 1)
  ELSE CloseIdx(p, i + 1, depth)

\* index of the first "|" of p[i..j] outside every group; 0 if none
RECURSIVE BarIdx(_, _, _, _)
BarIdx(p, i, j, depth) ==
  IF i > j THEN 0
  ELSE IF p[i] = "\\" THEN BarIdx(p, i + 2, j, depth)
  ELSE IF p[i] = "(" THEN BarIdx(p, i + 1, j, depth + 1)
  ELSE IF p[i] = ")" THEN BarIdx(p, i + 1, j, depth - 1)
  ELSE IF p[i] = "|" /\ depth = 0 THEN i
  ELSE BarIdx(p, i + 1, j, depth)

\* The positions of t at which a match of p[i..j] that starts at pos can
\* end, in the order the backtracking matcher tries them.
RECURSIVE DisjEnds(_, _, _, _, _, _)
RECURSIVE AltEnds(_, _, _, _, _, _)
RECURSIVE ThenEnds(_, _, _, _, _, _)
DisjEnds(p, i, j, t, pos, ic) ==
  LET k == BarIdx(p, i, j, 0)
  IN  IF k = 0 THEN AltEnds(p, i, j, t, pos, ic)
      ELSE AltEnds(p, i, k - 1, t, pos, ic) \o DisjEnds(p, k + 1, j, t, pos, ic)

AltEnds(p, i, j, t, pos, ic) ==
  IF i > j THEN <<pos>>
  ELSE IF p[i] = "("
  THEN LET m == CloseIdx(p, i + 1, 0)
       IN  ThenEnds(p, m + 1, j, t, DisjEnds(p, i + 1, m - 1, t, pos, ic), ic)
  ELSE LET esc == p[i] = "\\"
           c   == IF esc THEN p[i + 1] ELSE p[i]
           nxt == IF esc THEN i + 2 ELSE i + 1
           eq  == IF ic THEN Lower(t[pos + 1]) = Lower(c) ELSE t[pos + 1] = c
       IN  IF pos < Len(t) /\ eq THEN AltEnds(p, nxt, j, t, pos + 1, ic)
           ELSE <<>>

ThenEnds(p, i, j, t, ends, ic) ==
  IF ends = <<>> THEN <<>>
  ELSE AltEnds(p, i, j, t, Head(ends), ic)
       \o ThenEnds(p, i, j, t, Tail(ends), ic)

NoMatch == [found |-> FALSE, end |-> 0]

\* the leftmost match starting at s or later (sticky: at s only); ends are
\* the ends of the matches that start at s
RECURSIVE SearchFrom(_, _, _, _, _)
RECURSIVE SearchAt(_, _, _, _, _, _)
SearchFrom(p, t, s, ic, sticky) ==
  IF s > Len(t) THEN NoMatch
  ELSE SearchAt(p, t, s, ic, sticky, DisjEnds(p, 1, Len(p), t, s, ic))

SearchAt(p, t, s, ic, sticky, ends) ==
  IF ends # <<>> THEN [found |-> TRUE, end |-> Head(ends)]
  ELSE IF sticky THEN NoMatch
  ELSE SearchFrom(p, t, s + 1, ic, sticky)

\* RegExp.prototype.test: the answer, and the object as the call leaves it.
\* With the g or y flag the search starts at lastIndex and the call stores
\* the end of the match, or 0 after a failure, back into lastIndex.
Stateful(re) == HasFlag(re, "g") \/ HasFlag(re, "y")

TestResult(re, m) ==
  [res |-> m.found,
   re  |-> IF Stateful(re)
           THEN [re EXCEPT !.lastIndex = IF m.found THEN m.end ELSE 0]
           ELSE re]

RegExpTest(re, t) ==
  TestResult(re, SearchFrom(re.body, t, IF Stateful(re) THEN re.lastIndex ELSE 0,
                            HasFlag(re, "i"), HasFlag(re, "y")))

\* whether the pattern matches somewhere in t, whatever lastIndex is
Matches(re, t) == SearchFrom(re.body, t, 0, HasFlag(re, "i"), FALSE).found

\* RegExp.prototype.source: "(?:)" for the empty pattern, "/" escaped
RECURSIVE EscapeSlashes(_)
EscapeSlashes(p) ==
  IF p = <<>> THEN <<>>
  ELSE IF Head(p) = "\\" /\ Len(p) > 1
       THEN <<p[1], p[2]>> \o EscapeSlashes(SubSeq(p, 3, Len(p)))
  ELSE IF Head(p) = "/" THEN <<"\\", "/">> \o EscapeSlashes(Tail(p))
  ELSE <<Head(p)>> \o EscapeSlashes(Tail(p))

RegExpSource(re) ==
  IF re.body = <<>> THEN <<"(", "?", ":", ")">> ELSE EscapeSlashes(re.body)

\* RegExp.prototype.flags: the flags in the order d g i m s u v y
RECURSIVE FlagsIn(_, _)
FlagsIn(re, order) ==
  IF order = <<>> THEN <<>>
  ELSE (IF HasFlag(re, Head(order)) THEN <<Head(order)>> ELSE <<>>)
       \o FlagsIn(re, Tail(order))

RegExpFlags(re) == FlagsIn(re, <<"d", "g", "i", "m", "s", "u", "v", "y">>)

(***************************************************************************)
(* Generation A (lines 1-164): loading.                                    *)
(***************************************************************************)
\* const batchSize = 400 in loadDict
A_batchSize == 400

\* the characters escapeRegExp puts a backslash before
A_Meta ==
  {"-", "/", "\\", "^", "$", "*", "+", "?", ".", "(", ")", "|", "[", "]", "{", "}"}

RECURSIVE A_escapeRegExp(_)
A_escapeRegExp(s) ==
  IF s = <<>> THEN <<>>
  ELSE (IF Head(s) \in A_Meta THEN <<"\\", Head(s)>> ELSE <<Head(s)>>)
       \o A_escapeRegExp(Tail(s))

\* one pass of the for loop of loadDict over a raw line
A_parseLine(raw) ==
  LET line == Trim(raw)
  IN  IF line = <<>> \/ StartsWith(line, <<"#">>) THEN [kind |-> "skip"]
      ELSE IF StartsWith(line, <<"/">>) /\ LastIndexOf(line, "/") > 0
      THEN LET last  == LastIndexOf(line, "/")
               body  == Slice(line, 1, last)
               given == Slice(line, last + 1, Len(line))
               flags == IF given = <<>> THEN <<"i">> ELSE given
           IN  IF Compiles(body, flags)
               THEN [kind |-> "regex", re |-> NewRegExp(body, flags)]
               ELSE [kind |-> "invalid"]
      ELSE [kind |-> "plain", text |-> line]

\* the for loop of loadDict: _plain, _regex and the number of logger.warn calls
A_parsed(one, rest) ==
  [plain |-> (IF one.kind = "plain" THEN <<one.text>> ELSE <<>>) \o rest.plain,
   regex |-> (IF one.kind = "regex" THEN <<one.re>> ELSE <<>>) \o rest.regex,
   warns |-> (IF one.kind = "invalid" THEN 1 ELSE 0) + rest.warns]

RECURSIVE A_parseLines(_)
A_parseLines(lines) ==
  IF lines = <<>> THEN [plain |-> <<>>, regex |-> <<>>, warns |-> 0]
  ELSE A_parsed(A_parseLine(Head(lines)), A_parseLines(Tail(lines)))

RECURSIVE A_escapeAll(_)
A_escapeAll(terms) ==
  IF terms = <<>> THEN <<>>
  ELSE <<A_escapeRegExp(Head(terms))>> \o A_escapeAll(Tail(terms))

\* the batching loop of loadDict from index i on
RECURSIVE A_batches(_, _)
A_batches(plain, i) ==
  IF ~(i < Len(plain)) THEN <<>>
  ELSE LET slice   == Slice(plain, i, i + A_batchSize)
           pattern == Join(A_escapeAll(slice), <<"|">>)
       IN  (IF Len(slice) = 0 THEN <<>>
            ELSE <<NewRegExp(<<"(">> \o pattern \o <<")">>, <<"i">>)>>)
           \o A_batches(plain, i + A_batchSize)

\* what loadDict computes from the lines it has read
A_compiled(parsed) ==
  [plain   |-> parsed.plain,
   regex   |-> parsed.regex,
   batches |-> A_batches(parsed.plain, 0),
   warns   |-> parsed.warns]

A_compile(lines) == A_compiled(A_parseLines(lines))

(***************************************************************************)
(* Generation A: matching.                                                 *)
(***************************************************************************)
\* for (const r of res) if (r.test(text)) return true: the answer, and the
\* objects as the loop leaves them
RECURSIVE TestUntilHit(_, _)
RECURSIVE TestNext(_, _, _)
TestUntilHit(res, text) ==
  IF res = <<>> THEN [hit |-> FALSE, res |-> <<>>]
  ELSE TestNext(res, text, RegExpTest(Head(res), text))

Tested(re, rest) == [hit |-> rest.hit, res |-> <<re>> \o rest.res]

\* first is what res[1].test(text) gave
TestNext(res, text, first) ==
  IF first.res THEN [hit |-> TRUE, res |-> <<first.re>> \o Tail(res)]
  ELSE Tested(first.re, TestUntilHit(Tail(res), text))

\* the second loop of isHit, after the first one gave b
A_isHitRegex(b, r) == [hit |-> r.hit, batches |-> b.res, regex |-> r.res]

\* the first loop of isHit gave b
A_isHitBatches(text, regex, b) ==
  IF b.hit THEN [hit |-> TRUE, batches |-> b.res, regex |-> regex]
  ELSE A_isHitRegex(b, TestUntilHit(regex, text))

\* isHit on a snapshot: the answer and the regex terms as it leaves them
A_isHit(text, batches, regex) ==
  A_isHitBatches(text, regex, TestUntilHit(batches, text))

\* the first loop of collectMatches
RECURSIVE A_plainMatches(_, _)
A_plainMatches(plain, text) ==
  IF plain = <<>> THEN <<>>
  ELSE (IF Head(plain) # <<>> /\ Includes(text, Head(plain))
        THEN <<Head(plain)>> ELSE <<>>)
       \o A_plainMatches(Tail(plain), text)

\* the second loop of collectMatches: labels and the terms as left
\* `/${r.source}/${r.flags}`
A_label(re) == <<"/">> \o RegExpSource(re) \o <<"/">> \o RegExpFlags(re)

\* one pass of the loop: first is what r.test(text) gave, rest the passes
\* after it
A_regexMatch(first, rest) ==
  [matched |-> (IF first.res THEN <<A_label(first.re)>> ELSE <<>>) \o rest.matched,
   regex   |-> <<first.re>> \o rest.regex]

RECURSIVE A_regexMatches(_, _)
A_regexMatches(regex, text) ==
  IF regex = <<>> THEN [matched |-> <<>>, regex |-> <<>>]
  ELSE A_regexMatch(RegExpTest(Head(regex), text),
                    A_regexMatches(Tail(regex), text))

\* collectMatches without its first loop
A_collectedRegexOnly(fromPlain, r) == [matched |-> r.matched, regex |-> r.regex]

A_collected(fromPlain, r) ==
  [matched |-> fromPlain \o r.matched, regex |-> r.regex]

A_collectMatches(text, plain, regex) ==
  A_collected(A_plainMatches(plain, text), A_regexMatches(regex, text))

(***************************************************************************)
(* Generation B (lines 166-319): loading.                                  *)
(***************************************************************************)
\* const batchSize = 400 in compileMatchers
B_batchSize == 400

\* the characters escapeRegExp (line 253) puts a backslash before
B_Meta == {".", "*", "+", "?", "^", "$", "{", "}", "(", ")", "|", "[", "]", "\\"}

RECURSIVE B_escapeRegExp(_)
B_escapeRegExp(s) ==
  IF s = <<>> THEN <<>>
  ELSE (IF Head(s) \in B_Meta THEN <<"\\", Head(s)>> ELSE <<Head(s)>>)
       \o B_escapeRegExp(Tail(s))

\* the useRegex loop of stripInlineComment from the rest of the line on
RECURSIVE B_stripLoop(_, _)
B_stripLoop(rest, escaped) ==
  IF rest = <<>> THEN <<>>
  ELSE IF Head(rest) = "\\"
       THEN <<Head(rest)>> \o B_stripLoop(Tail(rest), ~escaped)
  ELSE IF Head(rest) = "#" /\ ~escaped THEN <<>>
  ELSE <<Head(rest)>> \o B_stripLoop(Tail(rest), FALSE)

B_stripInlineComment(line, useRegex) ==
  IF useRegex THEN Trim(B_stripLoop(line, FALSE))
  ELSE LET idx == IndexOf(line, "#")
       IN  Trim(IF idx >= 0 THEN Slice(line, 0, idx) ELSE line)

\* flags that do not follow cfg.ignoreCase
B_flagsIgnoreCase(cfg) == <<"i">>

B_flags(cfg) == IF cfg.ignoreCase THEN <<"i">> ELSE <<>>

\* the first loop of compileMatchers; an invalid regex is dropped silently
RECURSIVE B_parseLines(_, _)
B_parseLines(lines, cfg) ==
  IF lines = <<>> THEN [literals |-> <<>>, regexes |-> <<>>]
  ELSE LET line == B_stripInlineComment(Head(lines), cfg.useRegex)
           rest == B_parseLines(Tail(lines), cfg)
       IN  IF line = <<>> THEN rest
           ELSE IF cfg.useRegex
           THEN [rest EXCEPT !.regexes =
                   (IF Compiles(line, B_flags(cfg))
                    THEN <<NewRegExp(line, B_flags(cfg))>> ELSE <<>>) \o @]
           ELSE [rest EXCEPT !.literals = <<line>> \o @]

RECURSIVE B_escapeAll(_)
B_escapeAll(terms) ==
  IF terms = <<>> THEN <<>>
  ELSE <<B_escapeRegExp(Head(terms))>> \o B_escapeAll(Tail(terms))

\* the batching loop of compileMatchers from index i on
RECURSIVE B_batches(_, _, _)
B_batches(literals, i, cfg) ==
  IF ~(i < Len(literals)) THEN <<>>
  ELSE LET batch  == B_escapeAll(Slice(literals, i, i + B_batchSize))
           source == Join(batch, <<"|">>)
       IN  (IF source # <<>> THEN <<NewRegExp(source, B_flags(cfg))>> ELSE <<>>)
           \o B_batches(literals, i + B_batchSize, cfg)

\* compileMatchers(lines, cfg).union
B_union(parsed, cfg) == parsed.regexes \o B_batches(parsed.literals, 0, cfg)

B_compileMatchers(lines, cfg) == B_union(B_parseLines(lines, cfg), cfg)

\* readLines: the lines of the file, [] when the read throws
B_readLines(f) == IF f.state = "ok" THEN f.lines ELSE <<>>

(***************************************************************************)
(* Generation C (lines 320-531): loading.                                  *)
(***************************************************************************)
\* the characters escapeReg puts a backslash before
C_Meta == {".", "*", "+", "?", "^", "$", "{", "}", "(", ")", "|", "[", "]", "\\"}

RECURSIVE C_escapeReg(_)
C_escapeReg(s) ==
  IF s = <<>> THEN <<>>
  ELSE (IF Head(s) \in C_Meta THEN <<"\\", Head(s)>> ELSE <<Head(s)>>)
       \o C_escapeReg(Tail(s))

\* the loop of normalizeLine from the rest of the line on
RECURSIVE C_normalizeLoop(_, _)
C_normalizeLoop(rest, escaped) ==
  IF rest = <<>> THEN <<>>
  ELSE IF escaped THEN <<Head(rest)>> \o C_normalizeLoop(Tail(rest), FALSE)
  ELSE IF Head(rest) = "\\" THEN <<Head(rest)>> \o C_normalizeLoop(Tail(rest), TRUE)
  ELSE IF Head(rest) = "#" THEN <<>>
  ELSE <<Head(rest)>> \o C_normalizeLoop(Tail(rest), FALSE)

\* normalizeLine; the byte-order mark is the one-character string "BOM"
C_normalizeLine(raw) ==
  LET line == Trim(IF raw # <<>> /\ Head(raw) = "BOM" THEN Tail(raw) ELSE raw)
  IN  IF line = <<>> THEN <<>> ELSE Trim(C_normalizeLoop(line, FALSE))

\* raw.split(/\r?\n/).map(normalizeLine).filter(Boolean)
RECURSIVE C_normalizeLines(_)
C_normalizeLines(raw) ==
  IF raw = <<>> THEN <<>>
  ELSE LET line == C_normalizeLine(Head(raw))
       IN  (IF line # <<>> THEN <<line>> ELSE <<>>) \o C_normalizeLines(Tail(raw))

\* the parts of a chunk without its first line
C_partsOfRest(chunk, asRegex) ==
  IF chunk = <<>> THEN <<>>
  ELSE [i \in 1..(Len(chunk) - 1) |->
          <<"(">> \o (IF asRegex THEN chunk[i + 1] ELSE C_escapeReg(chunk[i + 1]))
          \o <<")">>]

\* chunk.filter(Boolean).map(s => asRegex ? `(${s})` : `(${escapeReg(s)})`)
RECURSIVE C_parts(_, _)
C_parts(chunk, asRegex) ==
  IF chunk = <<>> THEN <<>>
  ELSE (IF Head(chunk) = <<>> THEN <<>>
        ELSE <<(<<"(">> \o (IF asRegex THEN Head(chunk) ELSE C_escapeReg(Head(chunk)))
                \o <<")">>)>>)
       \o C_parts(Tail(chunk), asRegex)

\* iterations of the loop of buildMatchers after which the model gives up
\* and reports that the loop does not end
C_LoopFuel == 8

\* the loop of buildMatchers from index i on, with the regs pushed so far:
\* "ok" with the regs, "throws" when new RegExp throws, "diverges" when the
\* loop is still running after C_LoopFuel iterations
RECURSIVE C_buildLoop(_, _, _, _, _, _, _)
C_buildLoop(lines, asRegex, ignoreCase, batchSize, i, regsSoFar, fuel) ==
  IF ~(i < Len(lines)) THEN [status |-> "ok", regs |-> regsSoFar]
  ELSE IF fuel = 0 THEN [status |-> "diverges", regs |-> <<>>]
  ELSE LET flags  == IF ignoreCase THEN <<"i">> ELSE <<>>
           parts  == C_parts(Slice(lines, i, i + batchSize), asRegex)
           source == Join(parts, <<"|">>)
       IN  IF parts = <<>>
           THEN C_buildLoop(lines, asRegex, ignoreCase, batchSize,
                            i + batchSize, regsSoFar, fuel - 1)
           ELSE IF ~Compiles(source, flags)
           THEN [status |-> "throws", regs |-> <<>>]
           ELSE C_buildLoop(lines, asRegex, ignoreCase, batchSize, i + batchSize,
                            regsSoFar \o <<NewRegExp(source, flags)>>, fuel - 1)

C_buildMatchers(lines, asRegex, ignoreCase, batchSize) ==
  C_buildLoop(lines, asRegex, ignoreCase, batchSize, 0, <<>>, C_LoopFuel)

\* testHit
C_testHit(text, regs) ==
  IF text = <<>> THEN [hit |-> FALSE, res |-> regs] ELSE TestUntilHit(regs, text)

(***************************************************************************)
(* State.                                                                  *)
(***************************************************************************)
VARIABLES
  variant,       \* "A", "B" or "C": the generation that is running
  config,        \* the plugin's Config
  file,          \* the dictionary file: [state, lines, mtime]
  phase,         \* "init" before apply, then "running", "crashed" when apply
                 \* threw, "hung" when a load never returns, "disposed"
  watch,         \* [kind, pending, last]: "watchFile" (A), "watch" (B, C),
                 \* "poll" (C) or "none"; change notifications not yet
                 \* delivered; the poller's `last`
  plainTerms,    \* A: module-level plainTerms
  regexTerms,    \* A: module-level regexTerms
  regexBatches,  \* A: module-level regexBatches
  compiled,      \* B: compiled.union
  regs,          \* C: regs
  loadedCount,   \* C: loadedCount
  mw,            \* the middleware's latest call and what it did
  outcome,       \* the latest apply or reload: what it read and logged
  content        \* history: the lines the latest successful load read

vars == <<variant, config, file, phase, watch, plainTerms, regexTerms,
          regexBatches, compiled, regs, loadedCount, mw, outcome, content>>

snapshotA == <<plainTerms, regexTerms, regexBatches>>
snapshots == <<plainTerms, regexTerms, regexBatches, compiled, regs, loadedCount>>

(***************************************************************************)
(* Inputs.                                                                 *)
(***************************************************************************)
\* dictionary lines the model draws file contents from
Lines ==
  { <<>>,
    <<"a">>,
    <<"a", "b">>,
    <<"(">>,
    <<"/", "a", "/", "g">>,
    <<"/", "/">>,
    <<"/", "(", "/">> }

\* every file of at most MaxLines lines
RECURSIVE FilesUpTo(_)
FilesUpTo(n) ==
  IF n = 0 THEN {}
  ELSE LET shorter == FilesUpTo(n - 1)
       IN  {<<l>> : l \in Lines} \cup shorter
           \cup {<<l>> \o f : l \in Lines, f \in {g \in shorter : Len(g) = n - 1}}

AllFiles == FilesUpTo(MaxLines)

\* the files the dictionary is rewritten to while the plugin runs
EditFiles ==
  { << <<"a">> >>,
    << <<"a", "b">>, <<"/", "a", "/", "g">> >>,
    << <<"a">>, <<"(">> >> }

\* message texts
Texts == { <<>>, <<"a">>, <<"a", "a">>, <<"a", "b">>, <<"(">> }
EditTexts == { <<"a">>, <<"a", "a">> }

\* sender ids; "" is a session without userId
Users == {"", "u1", "u2"}

\* maxLogMatches: unset, or a number
Unset == [set |-> FALSE, val |-> 0]
Num(n) == [set |-> TRUE, val |-> n]
MaxLogChoices == {Unset, Num(0), Num(-1), Num(1), Num(2)}

\* Config with the Schema defaults of all three generations
DefaultConfig ==
  [maxLogMatches |-> Num(50), whitelistQQ |-> {"u1"}, replyHints |-> 1,
   useRegex |-> FALSE, ignoreCase |-> TRUE, watch |-> TRUE,
   batchSize |-> 400, blockOnHit |-> FALSE, onlyGroup |-> TRUE]

ConfigsOf(v) ==
  IF v = "A"
  THEN {[DefaultConfig EXCEPT !.maxLogMatches = m] : m \in MaxLogChoices}
  ELSE IF v = "B"
  THEN {[DefaultConfig EXCEPT !.useRegex = u, !.watch = w, !.replyHints = 0,
                              !.blockOnHit = TRUE] : u, w \in BOOLEAN}
  ELSE {[DefaultConfig EXCEPT !.useRegex = u, !.watch = w, !.batchSize = b]
          : u, w \in BOOLEAN, b \in {1, 400}}

NoOutcome ==
  [op |-> "none", ok |-> FALSE, saw |-> "none", lines |-> <<>>,
   warns |-> 0, errors |-> 0]

IdleMw ==
  [pc |-> "idle", text |-> <<>>, checked |-> FALSE, hit |-> FALSE,
   matched |-> <<>>, shown |-> <<>>, passed |-> FALSE, replied |-> FALSE]

NoWatch == [kind |-> "none", pending |-> 0, last |-> 0]

\* the file as the plugin finds it: a file of the given set, no file, or a
\* file that exists and cannot be read
FileStates(files) ==
  {[state |-> "ok", lines |-> f, mtime |-> 1] : f \in files}
  \cup {[state |-> "missing", lines |-> <<>>, mtime |-> 1],
        [state |-> "unreadable", lines |-> <<>>, mtime |-> 1]}

InitWith(files) ==
  /\ variant \in {"A", "B", "C"}
  /\ config \in ConfigsOf(variant)
  /\ file \in FileStates(files)
  /\ phase = "init"
  /\ watch = NoWatch
  /\ plainTerms = <<>>
  /\ regexTerms = <<>>
  /\ regexBatches = <<>>
  /\ compiled = <<>>
  /\ regs = <<>>
  /\ loadedCount = 0
  /\ mw = IdleMw
  /\ outcome = NoOutcome
  /\ content = <<>>

(***************************************************************************)
(* The environment: the dictionary file is edited from outside.            *)
(***************************************************************************)
\* a watcher that is set up is told of the change
Notified == IF watch.kind \in {"watchFile", "watch"}
            THEN [watch EXCEPT !.pending = @ + 1] ELSE watch

ChangeFile(files) ==
  /\ phase # "init"
  /\ file.mtime <= MaxEdits
  /\ \E f \in FileStates(files) :
       /\ <<f.state, f.lines>> # <<file.state, file.lines>>
       /\ file' = [f EXCEPT !.mtime = file.mtime + 1]
  /\ watch' = Notified
  /\ UNCHANGED <<variant, config, phase, snapshots, mw, outcome, content>>

\* the event loop calls a listener: one queued notification is consumed
TakeNotification(kind) ==
  /\ watch.kind = kind
  /\ watch.pending > 0
  /\ watch' = [watch EXCEPT !.pending = @ - 1]

\* the calls of the listeners and of the timer's callback, up to the load
\* each of them starts
A_listenerCalled == variant = "A" /\ TakeNotification("watchFile")

B_listenerCalled == variant = "B" /\ TakeNotification("watch")

C_listenerCalled ==
  variant = "C" /\ phase = "running" /\ TakeNotification("watch")

\* a tick of setInterval that finds mt !== last, up to last = mt
C_tickFindsChange ==
  /\ variant = "C"
  /\ phase = "running"
  /\ watch.kind = "poll"
  /\ file.state # "missing"
  /\ file.mtime # watch.last
  /\ watch' = [watch EXCEPT !.last = file.mtime]

(***************************************************************************)
(* Generation A: apply, the fs.watchFile listener, the middleware.         *)
(***************************************************************************)
\* loadDict without its last assignment: the batch patterns of the load
\* before stay
A_publishStaleBatches(c) == <<c.plain, c.regex, regexBatches>>

\* loadDict with _plain, _regex and batches kept from load to load
A_publishAppending(c) ==
  <<plainTerms \o c.plain, regexTerms \o c.regex, regexBatches \o c.batches>>

\* the three assignments that end loadDict: plainTerms, regexTerms,
\* regexBatches as they are after them
A_publish(c) == <<c.plain, c.regex, c.batches>>

A_loaded(c) == [status |-> "ok", state |-> A_publish(c), warns |-> c.warns]

\* loadDict(dictFile) on the file as it is: "throws" when readFileSync
\* throws, else the new module-level state and the warnings logged
A_loadDict(f) ==
  IF f.state # "ok" THEN [status |-> "throws", warns |-> 0]
  ELSE A_loaded(A_compile(f.lines))

A_assign(state) ==
  /\ plainTerms' = state[1]
  /\ regexTerms' = state[2]
  /\ regexBatches' = state[3]

\* what a call of loadDict that gave r leaves: r.status is "throws" when it
\* threw, and then `caught` says what the caller's catch logs
A_load(op, r, caught) ==
  IF r.status = "throws"
  THEN /\ outcome' = [NoOutcome EXCEPT !.op = op, !.saw = file.state,
                                       !.warns = caught]
       /\ UNCHANGED <<snapshotA, content>>
  ELSE /\ A_assign(r.state)
       /\ outcome' = [op |-> op, ok |-> TRUE, saw |-> file.state,
                      lines |-> file.lines, warns |-> r.warns, errors |-> 0]
       /\ content' = file.lines

\* apply: loadDict when the file exists, then fs.watchFile; a throw of
\* loadDict leaves apply and nothing after it runs
A_applied(r) ==
  IF file.state = "missing"
  THEN \* logger.warn('dict file not found')
       /\ outcome' = [NoOutcome EXCEPT !.op = "apply", !.saw = file.state,
                                       !.warns = 1]
       /\ phase' = "running"
       /\ watch' = [NoWatch EXCEPT !.kind = "watchFile"]
       /\ UNCHANGED <<snapshotA, content>>
  ELSE /\ A_load("apply", r, 0)
       /\ phase' = IF r.status = "throws" THEN "crashed" ELSE "running"
       /\ watch' = IF r.status = "throws" THEN watch
                   ELSE [NoWatch EXCEPT !.kind = "watchFile"]

A_apply ==
  /\ variant = "A"
  /\ phase = "init"
  /\ A_applied(A_loadDict(file))
  /\ UNCHANGED <<variant, config, file, compiled, regs, loadedCount, mw>>

\* the listener given to fs.watchFile: loadDict in a try whose catch logs
\* one warning.  apply registers no dispose handler, so the listener stays
\* registered when the plugin is disposed.
A_onFileChanged ==
  /\ A_listenerCalled
  /\ A_load("reload", A_loadDict(file), 1)
  /\ UNCHANGED <<variant, config, file, phase, compiled, regs, loadedCount, mw>>

\* the `|| 50` of the middleware
A_defaultMaxLog == 50

\* the cap without Math.max: config.maxLogMatches || 50
A_capUnclamped(cfg) ==
  IF cfg.maxLogMatches.set /\ cfg.maxLogMatches.val # 0
  THEN cfg.maxLogMatches.val ELSE A_defaultMaxLog

\* Math.max(1, config.maxLogMatches || 50)
A_cap(cfg) ==
  Max(1, IF cfg.maxLogMatches.set /\ cfg.maxLogMatches.val # 0
         THEN cfg.maxLogMatches.val ELSE A_defaultMaxLog)

\* matched.slice(0, Math.max(1, config.maxLogMatches || 50))
A_shown(matched, cfg) == Slice(matched, 0, A_cap(cfg))

\* return next() before any test
A_pass(text) ==
  [mw |-> [IdleMw EXCEPT !.text = text, !.passed = TRUE],
   regex |-> regexTerms, batches |-> regexBatches]

\* isHit gave h and collectMatches gave c
A_blocked(text, h, c) ==
  [mw |-> [IdleMw EXCEPT
             !.text = text, !.checked = TRUE, !.hit = TRUE,
             !.matched = c.matched,
             !.shown = A_shown(c.matched, config),
             !.pc = IF config.replyHints > 0 THEN "sending" ELSE "idle"],
   regex |-> c.regex, batches |-> h.batches]

\* isHit gave h
A_tested(text, h) ==
  IF ~h.hit
  THEN [mw |-> [IdleMw EXCEPT !.text = text, !.passed = TRUE, !.checked = TRUE],
        regex |-> h.regex, batches |-> h.batches]
  ELSE A_blocked(text, h, A_collectMatches(text, plainTerms, h.regex))

\* the middleware without the whitelist test
A_checkTextForAll(text, uid) ==
  IF text = <<>> THEN A_pass(text)
  ELSE A_tested(text, A_isHit(text, regexBatches, regexTerms))

A_checkText(text, uid) ==
  IF text = <<>> THEN A_pass(text)
  ELSE IF uid # "" /\ uid \in config.whitelistQQ THEN A_pass(text)
  ELSE A_tested(text, A_isHit(text, regexBatches, regexTerms))

\* The middleware up to its first await, on the module-level state as it
\* is: what it decides, and regexTerms and regexBatches as it leaves them.
A_check(rawText, uid) == A_checkText(Trim(rawText), uid)

A_handled(r) ==
  /\ mw' = r.mw
  /\ regexTerms' = r.regex
  /\ regexBatches' = r.batches

A_middleware(rawText, uid) ==
  /\ variant = "A"
  /\ phase = "running"
  /\ mw.pc = "idle"
  /\ A_handled(A_check(rawText, uid))
  /\ UNCHANGED <<variant, config, file, phase, watch, plainTerms, compiled,
                 regs, loadedCount, outcome, content>>

(***************************************************************************)
(* Generation B: apply, reload, the fs.watch listener, the middleware.     *)
(***************************************************************************)
\* fs.watch throws when the file is not there; where it is, it may still
\* throw (no watch left to give, a file system without notifications)
WatchSetups(f) == IF f.state = "missing" THEN {FALSE} ELSE BOOLEAN

\* compiled = compileMatchers(readLines(dictAbs), config)
B_load(op) ==
  /\ compiled' = B_compileMatchers(B_readLines(file), config)
  /\ outcome' = [op |-> op, ok |-> file.state = "ok", saw |-> file.state,
                 lines |-> B_readLines(file), warns |-> 0, errors |-> 0]
  /\ content' = IF file.state = "ok" THEN file.lines ELSE content

B_apply ==
  /\ variant = "B"
  /\ phase = "init"
  /\ B_load("apply")
  /\ phase' = "running"
  /\ \E ok \in WatchSetups(file) :
       watch' = IF config.watch /\ ok THEN [NoWatch EXCEPT !.kind = "watch"]
                ELSE NoWatch
  /\ UNCHANGED <<variant, config, file, snapshotA, regs, loadedCount, mw>>

\* the listener given to fs.watch; the watcher is never closed
B_onWatchEvent ==
  /\ B_listenerCalled
  /\ B_load("reload")
  /\ UNCHANGED <<variant, config, file, phase, snapshotA, regs, loadedCount, mw>>

\* the banwords.reload command
B_reloadCommand ==
  /\ variant = "B"
  /\ phase = "running"
  /\ B_load("reload")
  /\ UNCHANGED <<variant, config, file, phase, watch, snapshotA, regs,
                 loadedCount, mw>>

\* the middleware up to its first await
\* the hit loop gave h: return next() without a hit; with one, the replies,
\* then next() unless blockOnHit
AfterHitTest(text, h) ==
  IF ~h.hit
  THEN [mw |-> [IdleMw EXCEPT !.text = text, !.passed = TRUE, !.checked = TRUE],
        res |-> h.res]
  ELSE [mw |-> [IdleMw EXCEPT
                  !.text = text, !.checked = TRUE, !.hit = TRUE,
                  !.pc = IF config.replyHints > 0 THEN "sending" ELSE "idle",
                  !.passed = config.replyHints = 0 /\ ~config.blockOnHit],
        res |-> h.res]

B_check(text) ==
  IF text = <<>>
  THEN [mw |-> [IdleMw EXCEPT !.text = text, !.passed = TRUE], res |-> compiled]
  ELSE AfterHitTest(text, TestUntilHit(compiled, text))

B_handled(r) ==
  /\ mw' = r.mw
  /\ compiled' = r.res

B_middleware(text) ==
  /\ variant = "B"
  /\ phase = "running"
  /\ mw.pc = "idle"
  /\ B_handled(B_check(text))
  /\ UNCHANGED <<variant, config, file, phase, watch, snapshotA, regs,
                 loadedCount, outcome, content>>

(***************************************************************************)
(* Generation C: apply, loadDict, watching, dispose, the middleware.       *)
(***************************************************************************)
\* loadDict() on the file as it is: regs and loadedCount as it leaves
\* them, what it logs, and whether it returns at all
C_failed ==
  [status |-> "returns", ok |-> FALSE, regs |-> <<>>, loadedCount |-> 0,
   warns |-> 0, errors |-> 0]

\* loadedCount = lines.length, then buildMatchers gave `built`
C_loadBuilt(lines, built) ==
  IF built.status = "throws" THEN [C_failed EXCEPT !.errors = 1]
  ELSE IF built.status = "diverges"
  THEN [C_failed EXCEPT !.status = "never", !.regs = regs,
                        !.loadedCount = Len(lines)]
  ELSE [C_failed EXCEPT !.ok = TRUE, !.regs = built.regs,
                        !.loadedCount = Len(lines)]

\* the file was read and normalized to `lines`
C_loadLines(lines, cfg) ==
  C_loadBuilt(lines,
              C_buildMatchers(lines, cfg.useRegex, cfg.ignoreCase, cfg.batchSize))

C_loadDict(f, cfg) ==
  IF f.state = "missing" THEN [C_failed EXCEPT !.warns = 1]
  ELSE IF f.state = "unreadable" THEN [C_failed EXCEPT !.errors = 1]
  ELSE C_loadLines(C_normalizeLines(f.lines), cfg)

\* what a call of loadDict that gave r leaves; the plugin's thread is lost
\* when the call never returns
C_loaded(op, thenPhase, r) ==
  /\ regs' = r.regs
  /\ loadedCount' = r.loadedCount
  /\ outcome' = [op |-> op, ok |-> r.ok, saw |-> file.state,
                 lines |-> IF file.state = "ok" THEN file.lines ELSE <<>>,
                 warns |-> r.warns, errors |-> r.errors]
  /\ content' = IF r.ok THEN file.lines ELSE content
  /\ phase' = IF r.status = "never" THEN "hung" ELSE thenPhase

C_load(op, thenPhase) == C_loaded(op, thenPhase, C_loadDict(file, config))

C_apply ==
  /\ variant = "C"
  /\ phase = "init"
  /\ C_load("apply", "running")
  /\ \E ok \in WatchSetups(file) :
       watch' = IF ~config.watch \/ phase' = "hung" THEN NoWatch
                ELSE IF ok THEN [NoWatch EXCEPT !.kind = "watch"]
                ELSE [NoWatch EXCEPT !.kind = "poll"]
  /\ UNCHANGED <<variant, config, file, snapshotA, compiled, mw>>

\* the listener given to fs.watch: every event is 'change' or 'rename'
C_onWatchEvent ==
  /\ C_listenerCalled
  /\ C_load("reload", phase)
  /\ UNCHANGED <<variant, config, file, snapshotA, compiled, mw>>

\* a tick that records the new mtime and does not call loadDict
C_pollTickNoLoad ==
  /\ C_tickFindsChange
  /\ UNCHANGED <<variant, config, file, phase, snapshots, loadedCount, mw,
                 outcome, content>>

\* a tick of the setInterval fallback that finds mt !== last; a tick that
\* finds the same mtime, or no file (statSync throws), changes nothing
C_pollTick ==
  /\ C_tickFindsChange
  /\ C_load("reload", phase)
  /\ UNCHANGED <<variant, config, file, snapshotA, compiled, mw>>

\* the banwords.reload command
C_reloadCommand ==
  /\ variant = "C"
  /\ phase = "running"
  /\ C_load("reload", phase)
  /\ UNCHANGED <<variant, config, file, watch, snapshotA, compiled, mw>>

\* the middleware up to its first await
C_checkText(text, inGroup) ==
  IF (config.onlyGroup /\ ~inGroup) \/ text = <<>> \/ Len(regs) = 0
  THEN [mw |-> [IdleMw EXCEPT !.text = text, !.passed = TRUE], res |-> regs]
  ELSE AfterHitTest(text, C_testHit(text, regs))

C_check(rawText, inGroup) == C_checkText(Trim(rawText), inGroup)

C_handled(r) ==
  /\ mw' = r.mw
  /\ regs' = r.res

C_middleware(rawText, inGroup) ==
  /\ variant = "C"
  /\ phase = "running"
  /\ mw.pc = "idle"
  /\ C_handled(C_check(rawText, inGroup))
  /\ UNCHANGED <<variant, config, file, phase, watch, snapshotA, compiled,
                 loadedCount, outcome, content>>

(***************************************************************************)
(* All generations.                                                        *)
(***************************************************************************)
\* await session.send(...) returns and the middleware ends: A returns
\* without next(); B and C call next() unless blockOnHit
SendDone ==
  /\ mw.pc = "sending"
  /\ mw' = [mw EXCEPT !.pc = "idle", !.replied = TRUE,
                      !.passed = variant # "A" /\ ~config.blockOnHit]
  /\ UNCHANGED <<variant, config, file, phase, watch, snapshots, outcome, content>>

\* the plugin is disposed: the host removes the middleware and the
\* commands and runs the 'dispose' handlers, which only C registers
\* (watcher.close() or clearInterval(timer))
Dispose ==
  /\ phase = "running"
  /\ phase' = "disposed"
  /\ watch' = IF variant = "C" THEN NoWatch ELSE watch
  /\ UNCHANGED <<variant, config, file, snapshots, mw, outcome, content>>

Apply == A_apply \/ B_apply \/ C_apply

Message(texts) ==
  \E t \in texts :
    \/ \E u \in Users : A_middleware(t, u)
    \/ B_middleware(t)
    \/ \E g \in BOOLEAN : C_middleware(t, g)

Reload ==
  \/ A_onFileChanged
  \/ B_onWatchEvent
  \/ B_reloadCommand
  \/ C_onWatchEvent
  \/ C_pollTick
  \/ C_reloadCommand

(***************************************************************************)
(* Specifications.                                                         *)
(***************************************************************************)
\* the plugin's life: started on any small file, the file edited while it
\* runs, reloads, messages, dispose
Init == InitWith(EditFiles)

Next ==
  \/ Apply
  \/ ChangeFile(EditFiles)
  \/ Reload
  \/ Message(EditTexts)
  \/ SendDone
  \/ Dispose

Spec == Init /\ [][Next]_vars

\* loading and matching: started on every file of at most MaxLines lines,
\* then messages and reload commands on that file
InitMatch == InitWith(AllFiles)

NextMatch ==
  \/ Apply
  \/ B_reloadCommand
  \/ C_reloadCommand
  \/ Message(Texts)
  \/ SendDone

SpecMatch == InitMatch /\ [][NextMatch]_vars

\* the same, with the event loop calling the file-change listeners and the
\* timer's callback whenever they are due.  Within Next a step that consumes
\* a notification, or records a new mtime, is a step of A_onFileChanged,
\* B_onWatchEvent, C_onWatchEvent or C_pollTick, and the load each of them
\* starts is defined in every state.
SpecWatch ==
  /\ Spec
  /\ WF_watch(A_listenerCalled)
  /\ WF_watch(B_listenerCalled)
  /\ WF_watch(C_listenerCalled)
  /\ WF_watch(C_tickFindsChange)

\* configurations and dictionaries in the large: both letter cases, comment
\* lines, /body/flags lines with and without flags, every batchSize the
\* Schema of generation C accepts
MaxWideLines == 2

WideLines ==
  { <<>>,
    <<"a">>,
    <<"A", "b">>,
    <<"#", "a">>,
    <<"/", "a", "/">>,
    <<"/", "a", "/", "g">> }

WideFiles == UNION {[1..n -> WideLines] : n \in 0..MaxWideLines}

WideTexts == { <<>>, <<"a">>, <<"A">>, <<"A", "B">> }

\* Schema.number() puts no range on batchSize
WideBatchSizes == {-1, 0, 1, 2, 100000}

WideConfigs(v) ==
  IF v = "A" THEN {DefaultConfig}
  ELSE IF v = "B"
  THEN {[DefaultConfig EXCEPT !.useRegex = u, !.ignoreCase = c, !.watch = FALSE,
                              !.replyHints = 0, !.blockOnHit = TRUE]
          : u, c \in BOOLEAN}
  ELSE {[DefaultConfig EXCEPT !.useRegex = u, !.ignoreCase = c, !.watch = FALSE,
                              !.batchSize = b]
          : u, c \in BOOLEAN, b \in WideBatchSizes}

InitWide ==
  /\ variant \in {"A", "B", "C"}
  /\ config \in WideConfigs(variant)
  /\ file \in FileStates(WideFiles)
  /\ phase = "init"
  /\ watch = NoWatch
  /\ plainTerms = <<>>
  /\ regexTerms = <<>>
  /\ regexBatches = <<>>
  /\ compiled = <<>>
  /\ regs = <<>>
  /\ loadedCount = 0
  /\ mw = IdleMw
  /\ outcome = NoOutcome
  /\ content = <<>>

\* the file is written again with the content it has: a new mtime, and a
\* notification for a watcher that is set up
TouchFile ==
  /\ phase # "init"
  /\ file.state = "ok"
  /\ file.mtime <= MaxEdits
  /\ file' = [file EXCEPT !.mtime = @ + 1]
  /\ watch' = Notified
  /\ UNCHANGED <<variant, config, phase, snapshots, mw, outcome, content>>

NextWide ==
  \/ Apply
  \/ TouchFile
  \/ A_onFileChanged
  \/ B_reloadCommand
  \/ C_reloadCommand
  \/ Message(WideTexts)
  \/ SendDone

SpecWide == InitWide /\ [][NextWide]_vars

(***************************************************************************)
(* Properties.                                                             *)
(***************************************************************************)
\* RegExp objects as new RegExp leaves them: lastIndex 0
Fresh(res) == [i \in 1..Len(res) |-> [res[i] EXCEPT !.lastIndex = 0]]

Range(seq) == {seq[i] : i \in 1..Len(seq)}

\* the active snapshot, lastIndex aside
Active ==
  IF variant = "A" THEN <<plainTerms, Fresh(regexTerms), Fresh(regexBatches)>>
  ELSE IF variant = "B" THEN Fresh(compiled)
  ELSE Fresh(regs)

\* the snapshot a successful load of the given lines produces
LoadOf(lines) ==
  IF variant = "A"
  THEN <<A_compile(lines).plain, A_compile(lines).regex, A_compile(lines).batches>>
  ELSE IF variant = "B" THEN B_compileMatchers(lines, config)
  ELSE C_loadLines(C_normalizeLines(lines), config).regs

\* the snapshot with no term in it
Empty == IF variant = "A" THEN <<<<>>, <<>>, <<>>>> ELSE <<>>

\* the hit-test of one message from a sender outside the whitelist, in a
\* group, on the state as it is
Hit(text) ==
  IF variant = "A" THEN A_check(text, "u2").mw.hit
  ELSE IF variant = "B" THEN B_check(text).mw.hit
  ELSE C_check(text, TRUE).mw.hit

Loaded == outcome.op \in {"apply", "reload"}

\* C1: a reload that fails leaves the active snapshot alone, so the plain
\* terms, regex terms and batch patterns are always those the latest
\* successful load produced, and never drop to the empty dictionary.
C1_FailedReloadKeepsSnapshot == Active = LoadOf(content)

\* C2: the batch patterns, plain terms and regex terms a message is tested
\* against are those of one and the same load: the parts of the active
\* snapshot are never of different loads, and no load takes effect inside a
\* message-handling step.
C2_PartsOfOneLoad ==
  IF variant = "A" THEN Active = LoadOf(content)
  ELSE Active \in {Empty, LoadOf(content)}

C2_OneSnapshotPerMessage ==
  /\ []C2_PartsOfOneLoad
  /\ [][mw' # mw => Active' = Active /\ content' = content]_vars

\* a reload took effect while a blocked message was still being answered
C2_Witness ==
  /\ variant = "A"
  /\ mw.pc = "sending"
  /\ outcome.op = "reload" /\ outcome.ok
  /\ Len(plainTerms) > 0 /\ Len(regexTerms) > 0
  /\ A_collectMatches(mw.text, plainTerms, regexTerms).matched # mw.matched

\* C3: when a load reads lines of which exactly one is a regular expression
\* that does not compile (a /body/flags line in generation A, a line of the
\* treat-lines-as-regex mode in generation C), the load completes, every
\* other term is active and hits its own text, and exactly one message is
\* logged for the line.
A_invalidLines(lines) ==
  {i \in 1..Len(lines) : A_parseLine(lines[i]).kind = "invalid"}

C_regexFlags == IF config.ignoreCase THEN <<"i">> ELSE <<>>

C_invalidLines(lines) ==
  {i \in 1..Len(lines) : lines[i] # <<>> /\ ~Compiles(lines[i], C_regexFlags)}

C_validLines(lines) ==
  {i \in 1..Len(lines) : lines[i] # <<>> /\ Compiles(lines[i], C_regexFlags)}

C3_A ==
  (variant = "A" /\ Loaded /\ outcome.saw = "ok"
     /\ Cardinality(A_invalidLines(outcome.lines)) = 1)
  => /\ outcome.ok
     /\ Active = LoadOf(outcome.lines)
     /\ \A i \in 1..Len(plainTerms) :
          A_isHit(plainTerms[i], Fresh(regexBatches), Fresh(regexTerms)).hit
     /\ outcome.warns + outcome.errors = 1

C3_C ==
  (variant = "C" /\ config.useRegex /\ Loaded /\ outcome.saw = "ok"
     /\ Cardinality(C_invalidLines(C_normalizeLines(outcome.lines))) = 1)
  => /\ outcome.ok
     /\ \A i \in C_validLines(C_normalizeLines(outcome.lines)) :
          C_testHit(C_normalizeLines(outcome.lines)[i], Fresh(regs)).hit
     /\ outcome.warns + outcome.errors = 1

C3_OneBadLineIsSkipped == C3_A /\ C3_C

\* C4: when apply finds the dictionary file missing or unreadable, apply
\* returns normally, at least one warning is logged, the dictionary is
\* empty and no text is a hit (generations A and C, until a reload).
C4_StartupIsBestEffort ==
  (variant \in {"A", "C"} /\ outcome.op = "apply" /\ outcome.saw # "ok")
  => /\ phase # "crashed"
     /\ outcome.warns + outcome.errors >= 1
     /\ Active = Empty
     /\ \A t \in Texts : ~Hit(t)

\* what the middleware of generation A computes for a message of a sender
\* outside the whitelist, on the state as it is
A_report(text) == A_check(text, "u2").mw

\* the position of the first x in seq
FirstIndex(seq, x) ==
  CHOOSE i \in 1..Len(seq) : seq[i] = x /\ \A j \in 1..(i - 1) : seq[j] # x

\* C5 as stated: for every plain term w of the active snapshot and every
\* configured cap, the message w is a hit and w is in the reported list.
C5_TermIsReported ==
  variant = "A" =>
    \A i \in 1..Len(plainTerms) :
      /\ A_report(plainTerms[i]).hit
      /\ plainTerms[i] \in Range(A_report(plainTerms[i]).shown)

\* C5 amended: for every plain term w of the active snapshot and every
\* configured cap, the message w is a hit and w is in the list collectMatches
\* returns; w is in the reported list whenever it is among the first cap
\* entries of that list.
C5_TermIsCollected ==
  variant = "A" =>
    \A i \in 1..Len(plainTerms) :
      /\ A_report(plainTerms[i]).hit
      /\ plainTerms[i] \in Range(A_report(plainTerms[i]).matched)
      /\ FirstIndex(A_report(plainTerms[i]).matched, plainTerms[i]) <= A_cap(config)
           => plainTerms[i] \in Range(A_report(plainTerms[i]).shown)

\* the message "ab" was blocked with the terms "a" and "ab" loaded and a
\* cap of 1: more terms match than are reported
C5_Witness ==
  /\ variant = "A"
  /\ mw.hit
  /\ mw.text \in Range(plainTerms)
  /\ Len(mw.matched) > A_cap(config)
  /\ mw.text \notin Range(mw.shown)

\* the patterns a hit-test runs
Patterns ==
  IF variant = "A" THEN regexBatches \o regexTerms
  ELSE IF variant = "B" THEN compiled
  ELSE regs

\* C6: a message is a hit exactly when one of the active batch patterns or
\* regex terms matches its text; an empty text is no hit, and nothing is a
\* hit while the dictionary is empty (generations A and C).
C6_HitIffSomePatternMatches ==
  variant \in {"A", "C"} =>
    \A t \in Texts :
      /\ t # <<>> => (Hit(t) <=> \E i \in 1..Len(Patterns) : Matches(Patterns[i], t))
      /\ t = <<>> => ~Hit(t)
      /\ Patterns = <<>> => ~Hit(t)

\* C7: a message-handling step, which runs the hit-test and the match
\* collection, leaves the active snapshot as it was, the RegExp objects of
\* /body/flags lines with the flags g or y included.
C7_MatchingIsPureRead ==
  [][mw' # mw => snapshots' = snapshots]_vars

\* C8: the cap is at least 1 for every configured value; the reported list
\* is no longer than the cap and is a prefix of the list collectMatches
\* returns; when more entries match than the cap, the logged total is larger
\* than the reported list.
C8_ReportIsCappedPrefix ==
  variant = "A" =>
    /\ A_cap(config) >= 1
    /\ \A t \in Texts :
         A_report(t).hit =>
           /\ Len(A_report(t).shown) <= A_cap(config)
           /\ Len(A_report(t).shown) <= Len(A_report(t).matched)
           /\ A_report(t).shown = SubSeq(A_report(t).matched, 1, Len(A_report(t).shown))
           /\ Len(A_report(t).matched) > A_cap(config)
                => /\ Len(A_report(t).shown) = A_cap(config)
                   /\ Len(A_report(t).matched) > Len(A_report(t).shown)

\* a blocked message whose matches were truncated, with maxLogMatches -1
C8_Witness ==
  /\ variant = "A"
  /\ config.maxLogMatches = Num(-1)
  /\ mw.hit
  /\ Len(mw.shown) = 1
  /\ Len(mw.matched) > Len(mw.shown)

\* a watcher or the polling timer is set up and the plugin runs
Watching == phase = "running" /\ watch.kind # "none"

\* a change of the file is detected and not yet handled: a notification is
\* queued for the listener, or the next tick will find a new mtime
Detected ==
  /\ Watching
  /\ \/ watch.kind \in {"watchFile", "watch"} /\ watch.pending > 0
     \/ watch.kind = "poll" /\ file.state # "missing" /\ file.mtime # watch.last

\* the latest load was a reload, and it read the file as it is now
ReloadedCurrent ==
  /\ outcome.op = "reload"
  /\ outcome.saw = file.state
  /\ file.state = "ok" => outcome.lines = file.lines

\* the polling timer finds nothing while the file is away: statSync throws
\* and the tick ends
TimerBlind == watch.kind = "poll" /\ file.state = "missing"

C10_NoReloadAfterDispose ==
  [][(variant \in {"A", "C"} /\ phase = "disposed")
       => snapshots' = snapshots /\ outcome' = outcome]_vars

\* the batch size a clamp to the range 1..2000 makes of a configured value
ClampedBatchSize(b) == Max(1, Min(b, 2000))

\* C11: generation C batches with the configured batchSize clamped to a
\* range: whatever value is configured, a load that read the file returns,
\* and the patterns it leaves are those of the clamped batch size; with
\* batchSize 1 there is one pattern per term.
C11_BatchSizeIsClamped ==
  (variant = "C" /\ ~config.useRegex /\ Loaded /\ outcome.saw = "ok")
  => /\ phase # "hung"
     /\ outcome.ok
     /\ Fresh(regs) =
          C_buildMatchers(C_normalizeLines(outcome.lines), FALSE,
                          config.ignoreCase,
                          ClampedBatchSize(config.batchSize)).regs
     /\ config.batchSize = 1 => Len(regs) = Len(C_normalizeLines(outcome.lines))

\* C17: every load returns: whatever batchSize is configured, the loop of
\* buildMatchers ends and the plugin goes on handling messages.
C17_EveryLoadReturns == phase # "hung"

\* a reload: by the listener of generation A, by the command of B and C
ReloadStep == A_onFileChanged \/ B_reloadCommand \/ C_reloadCommand

\* the latest load read the file as it is now
SameFileAsLastLoad ==
  /\ Loaded
  /\ outcome.saw = file.state
  /\ outcome.lines = file.lines

\* the dictionaries as the latest load left them, before any message
FreshSnapshots ==
  <<plainTerms, Fresh(regexTerms), Fresh(regexBatches), Fresh(compiled),
    Fresh(regs), loadedCount>>

\* C12: a reload of the file the latest load read leaves the dictionary
\* that load left, whatever messages were handled in between: the same
\* terms and patterns in the same number, with lastIndex 0, and so the same
\* hit and the same matches for every text.
C12_ReloadIsIdempotent ==
  [][(ReloadStep /\ SameFileAsLastLoad)
       => /\ snapshots' = FreshSnapshots
          /\ outcome'.ok = outcome.ok
          /\ \A t \in WideTexts :
               /\ A_isHit(t, regexBatches', regexTerms').hit
                    = A_isHit(t, Fresh(regexBatches), Fresh(regexTerms)).hit
               /\ A_collectMatches(t, plainTerms', regexTerms').matched
                    = A_collectMatches(t, plainTerms, Fresh(regexTerms)).matched
               /\ TestUntilHit(compiled', t).hit
                    = TestUntilHit(Fresh(compiled), t).hit
               /\ C_testHit(t, regs').hit = C_testHit(t, Fresh(regs)).hit]_vars

\* generation A reloaded its file after a message had left lastIndex 1 on
\* the term /a/g: both the term a and /a/g had matched the message
C12_Witness ==
  /\ variant = "A"
  /\ outcome.op = "reload" /\ outcome.ok
  /\ SameFileAsLastLoad
  /\ mw.hit /\ Len(mw.matched) = 2
  /\ Len(plainTerms) = 1 /\ Len(regexTerms) = 1
  /\ HasFlag(regexTerms[1], "g")
  /\ regexTerms[1].lastIndex = 0

\* the outcome the rule of C13 gives a line: "skip" for a blank line and a
\* line whose first character after trimming is #; a regex term for a line
\* /body/flags, with the default flags where the line has none, "invalid"
\* where it does not compile; a plain term for every other line
RuleOf(raw, defaultFlags) ==
  LET line == Trim(raw)
      last == LastIndexOf(line, "/")
      body == Slice(line, 1, last)
      given == Slice(line, last + 1, Len(line))
      flags == IF given = <<>> THEN defaultFlags ELSE given
  IN  IF line = <<>> THEN [kind |-> "skip"]
      ELSE IF Head(line) = "#" THEN [kind |-> "skip"]
      ELSE IF Head(line) = "/" /\ last > 0
      THEN IF Compiles(body, flags)
           THEN [kind |-> "regex", re |-> NewRegExp(body, flags)]
           ELSE [kind |-> "invalid"]
      ELSE [kind |-> "plain", text |-> line]

LinesOfKind(lines, kind, defaultFlags) ==
  {i \in 1..Len(lines) : RuleOf(lines[i], defaultFlags).kind = kind}

\* the plain terms, and the regex terms, the rule gives a file, in file order
RECURSIVE PlainOf(_, _)
PlainOf(lines, defaultFlags) ==
  IF lines = <<>> THEN <<>>
  ELSE (IF RuleOf(Head(lines), defaultFlags).kind = "plain"
        THEN <<RuleOf(Head(lines), defaultFlags).text>> ELSE <<>>)
       \o PlainOf(Tail(lines), defaultFlags)

RECURSIVE RegexOf(_, _)
RegexOf(lines, defaultFlags) ==
  IF lines = <<>> THEN <<>>
  ELSE (IF RuleOf(Head(lines), defaultFlags).kind = "regex"
        THEN <<RuleOf(Head(lines), defaultFlags).re>> ELSE <<>>)
       \o RegexOf(Tail(lines), defaultFlags)

\* C13, generation A: after a successful load the plain terms and the regex
\* terms are those the rule gives the lines read, in file order, and plain
\* terms, regex terms, skipped lines and warned-of invalid lines add up to
\* the number of lines.
C13_A ==
  (variant = "A" /\ Loaded /\ outcome.ok)
  => /\ plainTerms = PlainOf(outcome.lines, <<"i">>)
     /\ Fresh(regexTerms) = RegexOf(outcome.lines, <<"i">>)
     /\ outcome.warns = Cardinality(LinesOfKind(outcome.lines, "invalid", <<"i">>))
     /\ Len(plainTerms) + Len(regexTerms) + outcome.warns
          + Cardinality(LinesOfKind(outcome.lines, "skip", <<"i">>))
        = Len(outcome.lines)

\* C13, generation C with literal lines: after a successful load the number
\* of terms is the number of lines the rule does not skip, and every text a
\* /body/flags line of the file matches is a hit.
C13_C ==
  (variant = "C" /\ ~config.useRegex /\ Loaded /\ outcome.ok)
  => /\ loadedCount + Cardinality(LinesOfKind(outcome.lines, "skip", C_regexFlags))
          = Len(outcome.lines)
     /\ \A i \in LinesOfKind(outcome.lines, "regex", C_regexFlags) :
          \A t \in WideTexts \ {<<>>} :
            Matches(RuleOf(outcome.lines[i], C_regexFlags).re, t)
              => C_testHit(t, Fresh(regs)).hit

\* C13: loading gives every line of the file exactly one outcome: none for
\* a blank line and a # line, one regex term for a /body/flags line, one
\* plain term for every other line, in file order.
C13_EveryLineHasOneOutcome == C13_A /\ C13_C

\* a text or term in lower case
Fold(str) == [i \in 1..Len(str) |-> Lower(str[i])]

\* the plain terms of the dictionary the latest load read: the literal
\* lines of generations B and C, the plain lines of generation A
LoadedPlainTerms ==
  IF variant = "A" THEN A_parseLines(outcome.lines).plain
  ELSE IF variant = "B" THEN B_parseLines(outcome.lines, config).literals
  ELSE C_normalizeLines(outcome.lines)

\* generation A has no ignoreCase setting: its batch patterns always have
\* the flag i
IgnoresCase == variant = "A" \/ config.ignoreCase

\* C14: with ignoreCase enabled a text that contains a plain term in any
\* letter case is a hit; with ignoreCase disabled a text that contains no
\* plain term in the letter case of the dictionary is no hit.
C14_CaseFollowsIgnoreCase ==
  (Loaded /\ outcome.ok /\ (variant = "A" \/ ~config.useRegex))
  => \A t \in WideTexts \ {<<>>} :
       /\ (IgnoresCase /\ \E w \in Range(LoadedPlainTerms) :
                            Includes(Fold(t), Fold(w)))
            => Hit(t)
       /\ (~IgnoresCase /\ \A w \in Range(LoadedPlainTerms) : ~Includes(t, w))
            => ~Hit(t)

\* generation C with ignoreCase disabled and the term a loaded let the
\* message A pass after testing it
C14_Witness ==
  /\ variant = "C"
  /\ ~config.ignoreCase /\ ~config.useRegex
  /\ Loaded /\ outcome.ok
  /\ <<"a">> \in Range(LoadedPlainTerms)
  /\ mw.text = <<"A">>
  /\ mw.checked /\ ~mw.hit /\ mw.passed

\* C15: in generation A a message of a sender in the whitelist is passed
\* to the next middleware without any test and without a reply, whatever
\* the dictionary and the text; a message of any other sender is kept from
\* the next middleware only when its text is a hit.
C15_WhitelistSkipsTheCheck ==
  (variant = "A" /\ phase = "running")
  => \A t \in WideTexts : \A u \in Users :
       /\ (u # "" /\ u \in config.whitelistQQ)
            => /\ A_check(t, u).mw.passed
               /\ ~A_check(t, u).mw.checked
               /\ ~A_check(t, u).mw.hit
               /\ A_check(t, u).mw.pc = "idle"
               /\ A_check(t, u).regex = regexTerms
               /\ A_check(t, u).batches = regexBatches
       /\ (u = "" \/ u \notin config.whitelistQQ)
            => (~A_check(t, u).mw.passed
                  => A_isHit(Trim(t), regexBatches, regexTerms).hit)

\* a message whose text is a hit for other senders was passed untested
C15_Witness ==
  /\ variant = "A"
  /\ mw.text # <<>>
  /\ mw.passed /\ ~mw.checked /\ ~mw.replied /\ mw.pc = "idle"
  /\ A_report(mw.text).hit

\* the k-th of the contiguous slices of at most `size` terms, and how many
\* there are: ceil(Len(terms) / size)
Chunk(terms, size, k) ==
  SubSeq(terms, (k - 1) * size + 1, Min(k * size, Len(terms)))

NumChunks(terms, size) == (Len(terms) + size - 1) \div size

\* the pattern of a slice: (t1|t2|...) with the flag i in generation A,
\* (t1)|(t2)|... with the configured flags in generation C
A_patternOf(chunk) ==
  NewRegExp(<<"(">> \o Join([i \in 1..Len(chunk) |-> A_escapeRegExp(chunk[i])],
                            <<"|">>) \o <<")">>,
            <<"i">>)

C_patternOf(chunk) ==
  NewRegExp(Join([i \in 1..Len(chunk) |->
                    <<"(">> \o (IF config.useRegex THEN chunk[i]
                                ELSE C_escapeReg(chunk[i])) \o <<")">>],
                 <<"|">>),
            C_regexFlags)

\* the terms generation C serves: those of the latest load when it
\* succeeded, none when it failed
C_activeTerms ==
  IF Loaded /\ outcome.ok THEN C_normalizeLines(outcome.lines) ELSE <<>>

\* C16: the active batch patterns are the batching of the active terms: the
\* k-th pattern is compiled from the k-th contiguous slice of at most
\* batchSize terms, there are ceil(terms / batchSize) patterns, and none is
\* compiled from an empty alternation.
C16_BatchesAreTheBatching ==
  /\ variant = "A" =>
       /\ Fresh(regexBatches) =
            [k \in 1..NumChunks(plainTerms, A_batchSize) |->
               A_patternOf(Chunk(plainTerms, A_batchSize, k))]
       /\ \A k \in 1..Len(regexBatches) : regexBatches[k].body # <<"(", ")">>
  /\ (variant = "C" /\ config.batchSize >= 1) =>
       /\ loadedCount = Len(C_activeTerms)
       /\ Fresh(regs) =
            [k \in 1..NumChunks(C_activeTerms, config.batchSize) |->
               C_patternOf(Chunk(C_activeTerms, config.batchSize, k))]
       /\ \A k \in 1..Len(regs) : regs[k].body # <<>>

\* generation C with batchSize 1 serves two patterns, one per term, after
\* the file was edited twice and reloaded
C16_Witness ==
  /\ variant = "C"
  /\ config.batchSize = 1
  /\ file.mtime > 2
  /\ outcome.op = "reload" /\ outcome.ok
  /\ Len(regs) = 2
  /\ loadedCount = 2

\* C18: in generation A the two tiers agree: a blocked message has at least
\* one matched term, and on the dictionary as a load left it a text is a hit
\* exactly when collectMatches returns a term or a regex label for it.
C18_HitIffSomeMatch ==
  variant = "A" =>
    /\ mw.hit => mw.matched # <<>>
    /\ \A t \in WideTexts :
         A_isHit(t, Fresh(regexBatches), Fresh(regexTerms)).hit
           <=> A_collectMatches(t, plainTerms, Fresh(regexTerms)).matched # <<>>

=============================================================================
